---- MODULE Spec2Model ----
(***************************************************************************)
(* Terminal lifecycle orchestrator of public-terminals: the create         *)
(* endpoint, the background provisioning workflow, the container callback  *)
(* endpoints, client and admin delete, the container driver and the        *)
(* periodic cleanup task, as one state machine over the terminals table.   *)
(*                                                                         *)
(* Time is counted in hours.  A step is what a handler does between two    *)
(* points where another handler can run or another process can see the     *)
(* database: the API process and the Celery worker share nothing but the   *)
(* database and the container runtime.                                     *)
(***************************************************************************)
EXTENDS Integers, Sequences, FiniteSets, TLC

\* ---------------------------------------------------------------- bounds
MaxTerminals == 2
MaxTime == 3

\* Settings of the program, scaled down to the bounds above:
\* config.py MAX_CONTAINERS_PER_SERVER = 240, TERMINAL_TTL_HOURS = 24, and the
\* poll loop's max_attempts = 60.
MAX_CONTAINERS_PER_SERVER == 1
TERMINAL_TTL_HOURS == 2
max_attempts == 2

\* ------------------------------------------------------ program constants
\* cleanup_failed_terminals(max_age_hours=1)
max_age_hours == 1

\* ------------------------------------------------------------ value sets
Ids == 1..MaxTerminals
NoTime == -1
NoContainer == 0
NoneStr == "None"
URLs == {"u1", "u2"}

PENDING == "pending"
STARTING == "starting"
STARTED == "started"
STOPPED == "stopped"
EXPIRED == "expired"
FAILED == "failed"
TerminalStatus == {PENDING, STARTING, STARTED, STOPPED, EXPIRED, FAILED}

PollFailedMessage == "Failed to obtain tunnel URL from container"
StuckMessage == "Terminal failed to start within expected time"
LimitMessage == "Max container limit reached"
DockerRunMessage == "Docker run failed"
CallbackErrors == {"container error"}

VARIABLES
    terminals,      \* the terminals table: id -> row
    wf,             \* per terminal: position of _create_terminal_background
    running,        \* container runtime: ids of the running containers
    pendingDeletes, \* background _delete_container tasks not yet run
    now,            \* wall clock, hours
    resp,           \* response to the last request handled
    touched,        \* history: a writer other than the workflow wrote the row
    statusTrace,    \* history: statuses the row has had while untouched
    cbStarted,      \* history: report_tunnel wrote Started during the poll loop
    stats_cache,    \* StatsService._stats_cache: container id -> last stats
    calls           \* driver and stats-service calls made by the last step

vars == <<terminals, wf, running, pendingDeletes, now, resp,
          touched, statusTrace, cbStarted, stats_cache, calls>>

\* ------------------------------------------------------------ the record
\* Terminal() followed by set_expiry(hours) and status = PENDING; created_at
\* is the server default func.now().  container_name and host_port are
\* written together with container_id and are folded into it.
NewTerminal_Starting(t) ==
    [status |-> STARTING, tunnel_url |-> NoneStr, container_id |-> NoContainer,
     created_at |-> t, expires_at |-> t + TERMINAL_TTL_HOURS,
     last_activity_at |-> NoTime, deleted_at |-> NoTime,
     error_message |-> NoneStr]

NewTerminal(t) ==
    [status |-> PENDING, tunnel_url |-> NoneStr, container_id |-> NoContainer,
     created_at |-> t, expires_at |-> t + TERMINAL_TTL_HOURS,
     last_activity_at |-> NoTime, deleted_at |-> NoTime,
     error_message |-> NoneStr]

\* uuid4(): an id no row has; rows are never hard-deleted, so the ids in
\* use are 1..n.
FreshId == Cardinality(DOMAIN terminals) + 1

\* position of the workflow: pc, poll attempts made, how it ended, the URL a
\* successful poll observed, the text of the exception it caught, and the
\* restart argument it was scheduled with
NoWf == [pc |-> "none", attempt |-> 0, url |-> NoneStr, result |-> "none",
         exc |-> NoneStr, restart |-> FALSE]

NoResp == [code |-> 0, status |-> NoneStr]

\* TerminalCallbackRequest without terminal_id: the optional fields; an absent
\* metric is NoMetric.
NoMetric == -1
NoBody == [tunnel_url |-> NoneStr, status |-> NoneStr,
           error_message |-> NoneStr, cpu_percent |-> NoMetric,
           memory_mb |-> NoMetric, memory_percent |-> NoMetric]

\* a call of the driver or of the stats service, and whether it succeeded
Call(op, cid, ok) == [op |-> op, cid |-> cid, ok |-> ok]

NoStats == [cpu_percent |-> NoMetric, memory_mb |-> NoMetric,
            memory_percent |-> NoMetric, timestamp |-> NoTime]


\* ------------------------------------------------------------- the driver
\* count_active_containers(): the number of running containers, or 0 when
\* the runtime query fails or times out (both except/else branches return 0).
count_active_containers(ok) == IF ok THEN Cardinality(running) ELSE 0

\* ---------------------------------------------------------------- set-up
Init ==
    /\ terminals = <<>>
    /\ wf = [i \in Ids |-> NoWf]
    /\ running = {}
    /\ pendingDeletes = {}
    /\ now = 0
    /\ resp = NoResp
    /\ touched = [i \in Ids |-> FALSE]
    /\ statusTrace = [i \in Ids |-> <<>>]
    /\ cbStarted = [i \in Ids |-> FALSE]
    /\ stats_cache = [i \in Ids |-> NoStats]
    /\ calls = <<>>

\* --------------------------------------------------------- create_terminal
\* POST /terminals: insert the row, commit, add the background task, return
\* the row.  No capacity check precedes the insert.
create_terminal ==
    /\ FreshId \in Ids
    /\ LET id == FreshId
           row == NewTerminal(now)
       IN /\ terminals' = terminals @@ (id :> row)
          /\ wf' = [wf EXCEPT ![id] = [NoWf EXCEPT !.pc = "scheduled"]]
          /\ resp' = [code |-> 202, status |-> row.status]
          /\ statusTrace' = [statusTrace EXCEPT ![id] = <<row.status>>]
    /\ UNCHANGED stats_cache
    /\ calls' = <<>>
    /\ UNCHANGED <<running, pendingDeletes, now, touched, cbStarted>>

\* ------------------------------------------------ history bookkeeping
\* The workflow's own writes extend the trace of an untouched row; any other
\* writer marks the row touched and the trace is dropped.
TraceAfter(id, row) ==
    IF touched[id] \/ row.status = terminals[id].status
    THEN statusTrace
    ELSE [statusTrace EXCEPT ![id] = Append(@, row.status)]

OtherWriter(id) ==
    /\ touched' = [touched EXCEPT ![id] = TRUE]
    /\ statusTrace' = [statusTrace EXCEPT ![id] = <<>>]

\* ------------------------------------------------- the container driver
\* create_terminal_container(): the limit check, then docker run / pod
\* creation.  The result is "ok" or the text of the exception raised.
create_terminal_container(countOk, runOk) ==
    IF count_active_containers(countOk) >= MAX_CONTAINERS_PER_SERVER
    THEN LimitMessage
    ELSE IF runOk THEN "ok" ELSE DockerRunMessage

\* delete_terminal_container() and stop_terminal_container(): stop and remove
\* the container; every failure is caught and reported as False, with the
\* container left as it was.
delete_terminal_container(cid, ok) == IF ok THEN running \ {cid} ELSE running

stop_terminal_container(cid, ok) == IF ok THEN running \ {cid} ELSE running

\* ------------------------------------------- _create_terminal_background
StartingWrite_Extends(row) ==
    [row EXCEPT !.status = STARTING, !.expires_at = @ + TERMINAL_TTL_HOURS]

StartingWrite(row) == [row EXCEPT !.status = STARTING]

ContainerWrite(row, cid) == [row EXCEPT !.container_id = cid]

PollSuccessWrite_StatusOnly(row, url) == [row EXCEPT !.status = STARTED]

PollSuccessWrite_UrlOnly(row, url) == [row EXCEPT !.tunnel_url = url]

PollSuccessWrite(row, url) ==
    [row EXCEPT !.tunnel_url = url, !.status = STARTED]

MarkFailed_NoMessage(row, msg) == [row EXCEPT !.status = FAILED]

MarkFailed(row, msg) ==
    [row EXCEPT !.status = FAILED, !.error_message = msg]

\* Python truthiness of an optional string
Truthy(s) == s \notin {NoneStr, ""}

\* `tunnel_url and container_status == "ready"` on a 200 response
PollReady(http200, url, st) == http200 /\ Truthy(url) /\ st = "ready"

\* load the row, status = STARTING, commit
BgStart(id) ==
    /\ wf[id].pc = "scheduled"
    /\ id \in DOMAIN terminals
    /\ LET row == StartingWrite(terminals[id])
       IN /\ terminals' = [terminals EXCEPT ![id] = row]
          /\ statusTrace' = TraceAfter(id, row)
    /\ wf' = [wf EXCEPT ![id].pc = "starting"]
    /\ UNCHANGED stats_cache
    /\ calls' = <<>>
    /\ UNCHANGED <<running, pendingDeletes, now, resp, touched,
                   cbStarted>>

\* create the container and commit its id; an exception goes to the handler
\* at the end of the function, which marks the row failed and returns
BgCreateContainer(id) ==
    /\ wf[id].pc = "starting"
    /\ \E countOk \in BOOLEAN, runOk \in BOOLEAN :
         LET result == create_terminal_container(countOk, runOk)
             row == IF result = "ok"
                    THEN ContainerWrite(terminals[id], id)
                    ELSE MarkFailed(terminals[id], result)
         IN /\ terminals' = [terminals EXCEPT ![id] = row]
            /\ statusTrace' = TraceAfter(id, row)
            /\ running' = IF result = "ok" THEN running \cup {id} ELSE running
            /\ wf' = [wf EXCEPT ![id] =
                        IF result = "ok"
                        THEN [@ EXCEPT !.pc = "polling"]
                        ELSE [@ EXCEPT !.pc = "done", !.result = "exception",
                                       !.exc = result]]
    /\ UNCHANGED stats_cache
    /\ calls' = <<Call("create", id, terminals'[id].container_id # NoContainer)>>
    /\ UNCHANGED <<pendingDeletes, now, resp, touched, cbStarted>>

\* one attempt of _poll_container_status: GET /status of the container; on
\* readiness write tunnel_url and STARTED and return True, else sleep
BgPollAttempt(id) ==
    /\ wf[id].pc = "polling"
    /\ wf[id].attempt < max_attempts
    /\ \E http200 \in BOOLEAN, url \in URLs \cup {NoneStr, ""},
          st \in {"ready", "starting"} :
         /\ http200 => id \in running
         /\ IF PollReady(http200, url, st)
            THEN LET row == PollSuccessWrite(terminals[id], url)
                 IN /\ terminals' = [terminals EXCEPT ![id] = row]
                    /\ statusTrace' = TraceAfter(id, row)
                    /\ wf' = [wf EXCEPT ![id] =
                                [@ EXCEPT !.pc = "done", !.result = "ready",
                                          !.url = url]]
            ELSE /\ wf' = [wf EXCEPT ![id].attempt = @ + 1]
                 /\ UNCHANGED <<terminals, statusTrace>>
    /\ UNCHANGED stats_cache
    /\ calls' = <<>>
    /\ UNCHANGED <<running, pendingDeletes, now, resp, touched,
                   cbStarted>>

\* the loop ran out of attempts: _poll_container_status returns False and the
\* workflow marks the row failed
BgPollExhausted(id) ==
    /\ wf[id].pc = "polling"
    /\ wf[id].attempt = max_attempts
    /\ LET row == MarkFailed(terminals[id], PollFailedMessage)
       IN /\ terminals' = [terminals EXCEPT ![id] = row]
          /\ statusTrace' = TraceAfter(id, row)
    /\ wf' = [wf EXCEPT ![id] = [@ EXCEPT !.pc = "done",
                                          !.result = "exhausted"]]
    /\ UNCHANGED stats_cache
    /\ calls' = <<>>
    /\ UNCHANGED <<running, pendingDeletes, now, resp, touched,
                   cbStarted>>

\* -------------------------------------------------- callback authentication
\* generate_callback_token(): HMAC-SHA256 of "callback:<id>" under the server
\* secret, modelled as an injective map from ids to tokens.
NoToken == 0
ForgedToken == 999
generate_callback_token(id) == 100 + id

\* a verification that only asks whether the token was issued at all
verify_callback_token_AnyTerminal(id, token) ==
    /\ token # NoToken
    /\ \E i \in Ids : token = generate_callback_token(i)

verify_callback_token(id, token) ==
    /\ token # NoToken
    /\ token = generate_callback_token(id)

\* Authorization header: absent, "Bearer <token>", or malformed (another
\* scheme in front of the token)
Headers ==
    {[scheme |-> "absent", token |-> NoToken]}
    \cup [scheme : {"bearer", "basic"},
          token : {generate_callback_token(i) : i \in Ids} \cup {ForgedToken}]

\* an extraction that does not look at the scheme
extract_bearer_token_AnyScheme(h) == h.token

extract_bearer_token(h) == IF h.scheme = "bearer" THEN h.token ELSE NoToken

verify_callback_authentication(id, h) ==
    /\ extract_bearer_token(h) # NoToken
    /\ verify_callback_token(id, extract_bearer_token(h))

\* the header the container of a terminal sends
OwnToken(id) == [scheme |-> "bearer", token |-> generate_callback_token(id)]

\* A terminal's token is held by its container only: a request that carries
\* the right token is sent by the running container of that terminal.
SentBy(id, h) == verify_callback_authentication(id, h) => id \in running

Reply(code) == [code |-> code, status |-> NoneStr]

Rejected(id, h) ==
    /\ resp' = Reply(IF verify_callback_authentication(id, h) THEN 404 ELSE 401)
    /\ calls' = <<>>
    /\ UNCHANGED <<terminals, wf, running, pendingDeletes, now,
                   touched, statusTrace, cbStarted, stats_cache>>

Accepted(id, h) ==
    /\ verify_callback_authentication(id, h)
    /\ id \in DOMAIN terminals

\* ---------------------------------------------------- POST /callbacks/tunnel
TunnelWrite_UrlOnSecond(row, url) ==
    [row EXCEPT !.status = STARTED,
                !.tunnel_url = IF row.status = STARTED THEN url ELSE @]

TunnelWrite(row, url) == [row EXCEPT !.tunnel_url = url, !.status = STARTED]

report_tunnel_url(id, h, url) ==
    /\ IF Accepted(id, h)
       THEN /\ terminals' = [terminals EXCEPT ![id] = TunnelWrite(@, url)]
            /\ OtherWriter(id)
            /\ cbStarted' = [cbStarted EXCEPT ![id] = @ \/ wf[id].pc = "polling"]
            /\ resp' = Reply(200)
            /\ calls' = <<>>
            /\ UNCHANGED <<wf, running, pendingDeletes, now, stats_cache>>
       ELSE Rejected(id, h)

\* ---------------------------------------------------- POST /callbacks/status
StatusWrite_StatusLast(row, st, err) ==
    LET r1 == IF Truthy(err)
              THEN [row EXCEPT !.error_message = err, !.status = FAILED]
              ELSE row
    IN IF st # NoneStr THEN [r1 EXCEPT !.status = st] ELSE r1

StatusWrite(row, st, err) ==
    LET r1 == IF st # NoneStr THEN [row EXCEPT !.status = st] ELSE row
    IN IF Truthy(err)
       THEN [r1 EXCEPT !.error_message = err, !.status = FAILED]
       ELSE r1

report_status(id, h, st, err) ==
    /\ IF Accepted(id, h)
       THEN /\ terminals' = [terminals EXCEPT ![id] = StatusWrite(@, st, err)]
            /\ OtherWriter(id)
            /\ resp' = Reply(200)
            /\ calls' = <<>>
            /\ UNCHANGED <<wf, running, pendingDeletes, now, cbStarted,
                           stats_cache>>
       ELSE Rejected(id, h)

\* ---------------------------------------------------- POST /callbacks/health
set_last_activity_AtCreation(row, t) ==
    [row EXCEPT !.last_activity_at = row.created_at]

set_last_activity(row, t) == [row EXCEPT !.last_activity_at = t]

container_health_check(id, h) ==
    /\ IF Accepted(id, h)
       THEN /\ terminals' = [terminals EXCEPT ![id] = set_last_activity(@, now)]
            /\ resp' = Reply(200)
            /\ calls' = <<>>
            /\ UNCHANGED <<wf, running, pendingDeletes, now, touched,
                           statusTrace, cbStarted, stats_cache>>
       ELSE Rejected(id, h)

\* ----------------------------------------------------- POST /callbacks/stats
\* `x or 0.0` of an optional metric
OrZero(x) == IF x = NoMetric THEN 0 ELSE x

\* a container and any of the three metrics
StatsGiven_AnyMetric(row, body) ==
    /\ row.container_id # NoContainer
    /\ \/ body.cpu_percent # NoMetric
       \/ body.memory_mb # NoMetric
       \/ body.memory_percent # NoMetric

\* the condition under which report_stats calls update_container_stats
StatsGiven(row, body) ==
    /\ row.container_id # NoContainer
    /\ (body.cpu_percent # NoMetric \/ body.memory_mb # NoMetric)

\* StatsService.update_container_stats()
update_container_stats(cache, cid, body, t) ==
    IF cid = NoContainer
    THEN cache
    ELSE [cache EXCEPT ![cid] = [cpu_percent |-> OrZero(body.cpu_percent),
                                 memory_mb |-> OrZero(body.memory_mb),
                                 memory_percent |-> OrZero(body.memory_percent),
                                 timestamp |-> t]]

StatsRowWrite_Activity(row, t) == [row EXCEPT !.last_activity_at = t]

\* report_stats writes nothing to the row
StatsRowWrite(row, t) == row

report_stats(id, h, body) ==
    /\ IF Accepted(id, h)
       THEN /\ IF StatsGiven(terminals[id], body)
               THEN /\ stats_cache' =
                         update_container_stats(stats_cache,
                             terminals[id].container_id, body, now)
                    /\ calls' = <<Call("update_container_stats",
                                       terminals[id].container_id, TRUE)>>
               ELSE /\ calls' = <<>>
                    /\ UNCHANGED stats_cache
            /\ terminals' = [terminals EXCEPT ![id] = StatsRowWrite(@, now)]
            /\ resp' = Reply(200)
            /\ UNCHANGED <<wf, running, pendingDeletes, now, touched,
                           statusTrace, cbStarted>>
       ELSE Rejected(id, h)

\* ------------------------------------------------------ POST /callbacks/idle
IdleNoOp_StoppedOnly(row) == row.status = STOPPED

IdleNoOp(row) == row.status \in {STOPPED, EXPIRED, FAILED}

\* the row after the container was asked to stop; the driver reports a failed
\* stop by returning False, which the handler does not read
IdleWrite_Deleted(row, t) == [row EXCEPT !.status = STOPPED, !.deleted_at = t]

IdleWrite(row, t) == [row EXCEPT !.status = STOPPED]

report_idle_shutdown(id, h) ==
    /\ IF Accepted(id, h)
       THEN IF IdleNoOp(terminals[id])
            THEN /\ resp' = Reply(200)
                 /\ calls' = <<>>
                 /\ UNCHANGED <<terminals, wf, running, pendingDeletes, now,
                                touched, statusTrace, cbStarted, stats_cache>>
            ELSE \E ok \in BOOLEAN :
                 /\ IF terminals[id].container_id # NoContainer
                    THEN /\ running' =
                              stop_terminal_container(
                                  terminals[id].container_id, ok)
                         /\ calls' = <<Call("stop",
                                            terminals[id].container_id, ok)>>
                    ELSE /\ running' = running
                         /\ calls' = <<>>
                 /\ terminals' = [terminals EXCEPT ![id] = IdleWrite(@, now)]
                 /\ OtherWriter(id)
                 /\ resp' = Reply(200)
                 /\ UNCHANGED <<wf, pendingDeletes, now, cbStarted,
                                stats_cache>>
       ELSE Rejected(id, h)

\* ---------------------------------------------------- DELETE /terminals/{id}
\* status = STOPPED, commit, then the container deletion as a background task
delete_terminal(id) ==
    IF id \in DOMAIN terminals
    THEN /\ terminals' = [terminals EXCEPT ![id].status = STOPPED]
         /\ OtherWriter(id)
         /\ pendingDeletes' =
              IF terminals[id].container_id # NoContainer
              THEN pendingDeletes \cup {terminals[id].container_id}
              ELSE pendingDeletes
         /\ resp' = Reply(200)
         /\ UNCHANGED stats_cache
         /\ calls' = <<>>
         /\ UNCHANGED <<wf, running, now, cbStarted>>
    ELSE /\ resp' = Reply(404)
         /\ UNCHANGED stats_cache
         /\ calls' = <<>>
         /\ UNCHANGED <<terminals, wf, running, pendingDeletes, now,
                        touched, statusTrace, cbStarted>>

\* the background task _delete_container of delete_terminal
BgDeleteContainer(cid) ==
    /\ cid \in pendingDeletes
    /\ \E ok \in BOOLEAN :
         /\ running' = delete_terminal_container(cid, ok)
         /\ calls' = <<Call("delete", cid, ok)>>
    /\ pendingDeletes' = pendingDeletes \ {cid}
    /\ UNCHANGED stats_cache
    /\ UNCHANGED <<terminals, wf, now, resp, touched, statusTrace,
                   cbStarted>>

\* GET /terminals: the default listing holds the rows without deleted_at
list_terminals(table) ==
    {id \in DOMAIN table : table[id].deleted_at = NoTime}

\* ------------------------------------------------ POST /terminals/{id}/start
is_expired_Never(row, t) == FALSE

\* Terminal.is_expired()
is_expired(row, t) == t > row.expires_at

\* start_terminal is imported by tests/test_stopped_terminals.py from
\* src.api.routes.terminals and is not in that file: it is modelled from the
\* test and from the transition Stopped -> Pending of the specification.
RestartWrite_StatusOnly(row) == [row EXCEPT !.status = PENDING]

RestartWrite(row) == [row EXCEPT !.status = PENDING, !.error_message = NoneStr]

start_terminal(id) ==
    IF id \notin DOMAIN terminals
    THEN /\ resp' = Reply(404)
         /\ calls' = <<>>
         /\ UNCHANGED <<terminals, wf, running, pendingDeletes, now,
                        touched, statusTrace, cbStarted, stats_cache>>
    ELSE IF terminals[id].status # STOPPED \/ is_expired(terminals[id], now)
    THEN /\ resp' = Reply(400)
         /\ calls' = <<>>
         /\ UNCHANGED <<terminals, wf, running, pendingDeletes, now,
                        touched, statusTrace, cbStarted, stats_cache>>
    ELSE /\ terminals' = [terminals EXCEPT ![id] = RestartWrite(@)]
         /\ OtherWriter(id)
         /\ wf' = [wf EXCEPT ![id] =
                     [NoWf EXCEPT !.pc = "scheduled", !.restart = TRUE]]
         /\ resp' = [code |-> 200, status |-> PENDING]
         /\ calls' = <<>>
         /\ UNCHANGED <<running, pendingDeletes, now, cbStarted, stats_cache>>

\* --------------------------------------------- DELETE /admin/terminals/{id}
\* soft delete and status = STOPPED, commit, then the container deletion
admin_delete_terminal(id) ==
    IF id \in DOMAIN terminals
    THEN /\ terminals' = [terminals EXCEPT ![id].deleted_at = now,
                                           ![id].status = STOPPED]
         /\ OtherWriter(id)
         /\ \E ok \in BOOLEAN :
              IF terminals[id].container_id # NoContainer
              THEN /\ running' =
                        delete_terminal_container(terminals[id].container_id, ok)
                   /\ calls' = <<Call("delete", terminals[id].container_id, ok)>>
              ELSE /\ running' = running
                   /\ calls' = <<>>
         /\ resp' = Reply(200)
         /\ UNCHANGED stats_cache
         /\ UNCHANGED <<wf, pendingDeletes, now, cbStarted>>
    ELSE /\ resp' = Reply(404)
         /\ UNCHANGED stats_cache
         /\ calls' = <<>>
         /\ UNCHANGED <<terminals, wf, running, pendingDeletes, now,
                        touched, statusTrace, cbStarted>>

\* ------------------------------------------------------- run_cleanup_task
\* The Celery task runs cleanup_expired_terminals and then
\* cleanup_failed_terminals; each pass is one step.  okDeletes are the rows
\* whose container deletion succeeds in the pass.
ExpiredSelected_StartedOnly(row) ==
    /\ row.expires_at < now
    /\ row.status = STARTED

ExpiredSelected(row) ==
    /\ row.expires_at < now
    /\ row.status \in {STARTED, STARTING, PENDING, STOPPED}

StuckSelected_AnyAge(row) == row.status \in {PENDING, STARTING}

StuckSelected(row) ==
    /\ row.status \in {PENDING, STARTING}
    /\ row.created_at < now - max_age_hours

ExpiredWrite_StatusOnly(row, t) == [row EXCEPT !.status = EXPIRED]

ExpiredWrite(row, t) == [row EXCEPT !.status = EXPIRED, !.deleted_at = t]

StuckWrite_NoMessage(row, t) ==
    [row EXCEPT !.status = FAILED, !.deleted_at = t]

StuckWrite(row, t) ==
    [row EXCEPT !.status = FAILED, !.error_message = StuckMessage,
                !.deleted_at = t]

\* the containers of the rows in S that have one and whose deletion succeeds
DeletedContainers(S, okDeletes) ==
    {terminals[i].container_id :
        i \in {j \in S \cap okDeletes : terminals[j].container_id # NoContainer}}

\* the delete calls of a pass, one per selected row that has a container
RECURSIVE DeleteCalls_AbortOnFailure(_, _)
DeleteCalls_AbortOnFailure(S, okDeletes) ==
    IF S = {} THEN <<>>
    ELSE LET i == CHOOSE x \in S : \A y \in S : x <= y
         IN IF terminals[i].container_id = NoContainer
            THEN DeleteCalls_AbortOnFailure(S \ {i}, okDeletes)
            ELSE IF i \in okDeletes
            THEN <<Call("delete", terminals[i].container_id, TRUE)>>
                    \o DeleteCalls_AbortOnFailure(S \ {i}, okDeletes)
            ELSE <<Call("delete", terminals[i].container_id, FALSE)>>

RECURSIVE DeleteCalls(_, _)
DeleteCalls(S, okDeletes) ==
    IF S = {} THEN <<>>
    ELSE LET i == CHOOSE x \in S : \A y \in S : x <= y
             rest == DeleteCalls(S \ {i}, okDeletes)
         IN IF terminals[i].container_id # NoContainer
            THEN <<Call("delete", terminals[i].container_id,
                        i \in okDeletes)>> \o rest
            ELSE rest

SweepTouch(S) ==
    /\ touched' = [i \in Ids |-> touched[i] \/ i \in S]
    /\ statusTrace' = [i \in Ids |-> IF i \in S THEN <<>> ELSE statusTrace[i]]

\* _cleanup_terminal() for every selected row
cleanup_expired_terminals ==
    LET S == {i \in DOMAIN terminals : ExpiredSelected(terminals[i])}
    IN /\ \E okDeletes \in SUBSET S :
            /\ running' = running \ DeletedContainers(S, okDeletes)
            /\ calls' = DeleteCalls(S, okDeletes)
       /\ terminals' = [i \in DOMAIN terminals |->
                          IF i \in S THEN ExpiredWrite(terminals[i], now)
                          ELSE terminals[i]]
       /\ SweepTouch(S)
       /\ UNCHANGED stats_cache
       /\ UNCHANGED <<wf, pendingDeletes, now, resp, cbStarted>>

cleanup_failed_terminals ==
    LET S == {i \in DOMAIN terminals : StuckSelected(terminals[i])}
    IN /\ \E okDeletes \in SUBSET S :
            /\ running' = running \ DeletedContainers(S, okDeletes)
            /\ calls' = DeleteCalls(S, okDeletes)
       /\ terminals' = [i \in DOMAIN terminals |->
                          IF i \in S THEN StuckWrite(terminals[i], now)
                          ELSE terminals[i]]
       /\ SweepTouch(S)
       /\ UNCHANGED stats_cache
       /\ UNCHANGED <<wf, pendingDeletes, now, resp, cbStarted>>

\* cleanup_idle_terminals(idle_timeout_minutes = 60); the model's clock counts
\* hours
idle_timeout_minutes == 60

\* Terminal.is_idle(): the last activity, or the creation when no activity was
\* recorded, lies before t - timeout
is_idle_ActivityOnly(row, t, timeout) ==
    row.last_activity_at # NoTime /\ row.last_activity_at < t - timeout

is_idle(row, t, timeout) ==
    LET check_time == IF row.last_activity_at = NoTime
                      THEN row.created_at
                      ELSE row.last_activity_at
    IN check_time # NoTime /\ check_time < t - timeout

IdleSelected(row) ==
    /\ row.status = STARTED
    /\ row.deleted_at = NoTime
    /\ is_idle(row, now, idle_timeout_minutes \div 60)

IdleStopWrite_Deleted(row, t) ==
    [row EXCEPT !.status = STOPPED, !.deleted_at = t]

\* _stop_idle_terminal(): the row after the stop was tried
IdleStopWrite(row, t) == [row EXCEPT !.status = STOPPED]

\* the stop calls of the idle pass, one per selected row that has a container
RECURSIVE StopCalls(_, _)
StopCalls(S, okStops) ==
    IF S = {} THEN <<>>
    ELSE LET i == CHOOSE x \in S : \A y \in S : x <= y
             rest == StopCalls(S \ {i}, okStops)
         IN IF terminals[i].container_id # NoContainer
            THEN <<Call("stop", terminals[i].container_id,
                        i \in okStops)>> \o rest
            ELSE rest

\* _stop_idle_terminal() for every Started, non-deleted, idle row
cleanup_idle_terminals ==
    LET S == {i \in DOMAIN terminals : IdleSelected(terminals[i])}
    IN /\ \E okStops \in SUBSET S :
            /\ running' = running \ DeletedContainers(S, okStops)
            /\ calls' = StopCalls(S, okStops)
       /\ terminals' = [i \in DOMAIN terminals |->
                          IF i \in S THEN IdleStopWrite(terminals[i], now)
                          ELSE terminals[i]]
       /\ SweepTouch(S)
       /\ UNCHANGED <<wf, pendingDeletes, now, resp, cbStarted, stats_cache>>

\* the clock advances
Tick ==
    /\ now < MaxTime
    /\ now' = now + 1
    /\ UNCHANGED stats_cache
    /\ calls' = <<>>
    /\ UNCHANGED <<terminals, wf, running, pendingDeletes, resp, touched,
                   statusTrace, cbStarted>>

\* Request payloads; a request that is rejected before its payload is read is
\* enumerated with one payload only.
TunnelPayloads(id, h) ==
    IF Accepted(id, h) THEN URLs \cup {NoneStr} ELSE {NoneStr}

StatusPayloads(id, h) ==
    IF Accepted(id, h)
    THEN (TerminalStatus \cup {NoneStr}) \X (CallbackErrors \cup {NoneStr})
    ELSE {<<NoneStr, NoneStr>>}

\* The headers a terminal's callbacks are tried with: its own token, and none.
OwnHeaders(id) ==
    {[scheme |-> "bearer", token |-> generate_callback_token(id)],
     [scheme |-> "absent", token |-> NoToken]}

\* The API process runs its handlers and background tasks on one event loop.
\* Between the commit of STARTING and the commit of the container id the
\* workflow makes only blocking calls, so no other task of that process runs
\* there; the Celery task is another process and is not held up.
LoopFree == \A i \in Ids : wf[i].pc # "starting"

Workflow ==
    \/ \E id \in Ids : LoopFree /\ BgStart(id)
    \/ \E id \in Ids : BgCreateContainer(id)
    \/ \E id \in Ids : LoopFree /\ BgPollAttempt(id)
    \/ \E id \in Ids : LoopFree /\ BgPollExhausted(id)

Callbacks ==
    \/ \E id \in Ids : \E h \in OwnHeaders(id) :
          \E url \in TunnelPayloads(id, h) :
             LoopFree /\ SentBy(id, h) /\ report_tunnel_url(id, h, url)
    \/ \E id \in Ids : \E h \in OwnHeaders(id) :
          \E p \in StatusPayloads(id, h) :
             LoopFree /\ SentBy(id, h) /\ report_status(id, h, p[1], p[2])
    \/ \E id \in Ids : \E h \in OwnHeaders(id) :
          LoopFree /\ SentBy(id, h) /\ report_idle_shutdown(id, h)

Deletes ==
    \/ \E id \in Ids : LoopFree /\ delete_terminal(id)
    \/ \E cid \in Ids : LoopFree /\ BgDeleteContainer(cid)

\* One terminal under every operation.  It is admitted at hour 0: a later
\* admission is the same run with less of the clock left.
AdmitFirst == LoopFree /\ terminals = <<>> /\ now = 0 /\ create_terminal

Next ==
    \/ AdmitFirst
    \/ Workflow
    \/ Callbacks
    \/ Deletes
    \/ \E id \in Ids : LoopFree /\ admin_delete_terminal(id)
    \/ cleanup_expired_terminals
    \/ cleanup_failed_terminals
    \/ Tick

Spec == Init /\ [][Next]_vars

\* Up to MaxTerminals terminals: admission, the workflow up to the container's
\* creation, and client delete.
NextFleet ==
    \/ LoopFree /\ create_terminal
    \/ \E id \in Ids : LoopFree /\ BgStart(id)
    \/ \E id \in Ids : BgCreateContainer(id)
    \/ Deletes
    \/ Tick

SpecFleet == Init /\ [][NextFleet]_vars

\* One terminal, admitted and given a container, and the five callback
\* endpoints under every header and payload, from any holder of a token.  A
\* request that is rejected before its payload is read is enumerated with one
\* payload only.
StatusInputs ==
    (TerminalStatus \cup {NoneStr}) \X (CallbackErrors \cup {NoneStr, ""})

StatsInputs ==
    {[NoBody EXCEPT !.cpu_percent = c, !.memory_mb = m, !.memory_percent = p] :
        c \in {NoMetric, 0, 5}, m \in {NoMetric, 7}, p \in {NoMetric, 9}}

AllStatusPayloads(id, h) ==
    IF Accepted(id, h) THEN StatusInputs ELSE {<<NoneStr, NoneStr>>}

StatsBodies(id, h) == IF Accepted(id, h) THEN StatsInputs ELSE {NoBody}

NextCallbacks ==
    \/ AdmitFirst
    \/ \E id \in Ids : LoopFree /\ BgStart(id)
    \/ \E id \in Ids : BgCreateContainer(id)
    \/ \E id \in Ids : \E h \in Headers : \E url \in TunnelPayloads(id, h) :
          LoopFree /\ report_tunnel_url(id, h, url)
    \/ \E id \in Ids : \E h \in Headers : \E p \in AllStatusPayloads(id, h) :
          LoopFree /\ report_status(id, h, p[1], p[2])
    \/ \E id \in Ids : \E h \in Headers :
          LoopFree /\ container_health_check(id, h)
    \/ \E id \in Ids : \E h \in Headers : \E body \in StatsBodies(id, h) :
          LoopFree /\ report_stats(id, h, body)
    \/ \E id \in Ids : \E h \in Headers :
          LoopFree /\ report_idle_shutdown(id, h)

SpecCallbacks == Init /\ [][NextCallbacks]_vars

\* Up to MaxTerminals terminals, each given a container, and callbacks that
\* carry the token of one terminal and name any terminal: one that writes the
\* row and one that calls the driver and writes the row.
BearerHeaders ==
    {[scheme |-> "bearer", token |-> generate_callback_token(a)] : a \in Ids}

BindingCallback(id, h) ==
    \/ report_tunnel_url(id, h, "u1")
    \/ report_idle_shutdown(id, h)

NextBinding ==
    \/ LoopFree /\ create_terminal
    \/ \E id \in Ids : LoopFree /\ BgStart(id)
    \/ \E id \in Ids : BgCreateContainer(id)
    \/ \E id \in Ids : \E h \in BearerHeaders :
          LoopFree /\ BindingCallback(id, h)

SpecBinding == Init /\ [][NextBinding]_vars

\* One terminal with the restart request: admission, the workflow, the
\* container's tunnel and idle reports, client delete and the clock.  A restart
\* that is admitted is requested when no workflow of the terminal is under way.
NextRestart ==
    \/ AdmitFirst
    \/ Workflow
    \/ \E id \in Ids : \E h \in OwnHeaders(id) :
          LoopFree /\ SentBy(id, h) /\ report_tunnel_url(id, h, "u1")
    \/ \E id \in Ids : \E h \in OwnHeaders(id) :
          LoopFree /\ SentBy(id, h) /\ report_idle_shutdown(id, h)
    \/ Deletes
    \/ \E id \in Ids :
          /\ LoopFree
          /\ (/\ id \in DOMAIN terminals
              /\ terminals[id].status = STOPPED
              /\ ~is_expired(terminals[id], now)) =>
                 wf[id].pc \in {"none", "done"}
          /\ start_terminal(id)
    \/ Tick

SpecRestart == Init /\ [][NextRestart]_vars

\* The same with the background task taken fairly: the event loop resumes the
\* workflow after each await, every driver and HTTP call carries a timeout and
\* the sleep between two polls is finite.
SpecProvision == Init /\ [][NextRestart]_vars /\ WF_vars(Workflow)

\* Up to MaxTerminals terminals under the three sweep passes: admission, the
\* workflow up to the container, the container's tunnel and health reports and
\* the clock.
NextSweep ==
    \/ LoopFree /\ create_terminal
    \/ \E id \in Ids : LoopFree /\ BgStart(id)
    \/ \E id \in Ids : BgCreateContainer(id)
    \/ \E id \in Ids :
          LoopFree /\ SentBy(id, OwnToken(id))
                   /\ report_tunnel_url(id, OwnToken(id), "u1")
    \/ \E id \in Ids :
          LoopFree /\ SentBy(id, OwnToken(id))
                   /\ container_health_check(id, OwnToken(id))
    \/ cleanup_expired_terminals
    \/ cleanup_failed_terminals
    \/ cleanup_idle_terminals
    \/ Tick

SpecSweep == Init /\ [][NextSweep]_vars

\* The sweep over a table of three records: one Started and past its
\* expires_at, one Pending, older than the stuck threshold and not expired, and
\* one current.  The rows are built by the writes that produce them: admission
\* at hour c, the workflow's STARTING and container writes, the tunnel report
\* and a health report at hour a.
StartedRow(id, c, a) ==
    LET r == TunnelWrite(
                 ContainerWrite(StartingWrite(NewTerminal(c)), id), "u1")
    IN IF a = NoTime THEN r ELSE set_last_activity(r, a)

StartedRows(id, c, t) == {StartedRow(id, c, a) : a \in {NoTime} \cup (c..t)}

ScenarioKinds == <<"expired", "stuck", "current">>

ScenarioRows(kind, id, t) ==
    CASE kind = "expired" ->
            UNION {StartedRows(id, c, t) :
                      c \in {x \in 0..t : x + TERMINAL_TTL_HOURS < t}}
      [] kind = "stuck" ->
            {NewTerminal(c) :
                c \in {x \in 0..t : /\ x < t - max_age_hours
                                     /\ x + TERMINAL_TTL_HOURS >= t}}
      [] kind = "current" ->
            UNION {{NewTerminal(c), StartingWrite(NewTerminal(c))}
                      \cup StartedRows(id, c, t) :
                      c \in {x \in 0..t : /\ x >= t - max_age_hours
                                           /\ x + TERMINAL_TTL_HOURS >= t}}

\* the three records in every order of admission
ScenarioTables(t) ==
    UNION {{<<r1, r2, r3>> :
               r1 \in ScenarioRows(ScenarioKinds[o[1]], 1, t),
               r2 \in ScenarioRows(ScenarioKinds[o[2]], 2, t),
               r3 \in ScenarioRows(ScenarioKinds[o[3]], 3, t)} :
           o \in Permutations(DOMAIN ScenarioKinds)}

InitScenario ==
    /\ now \in 0..(TERMINAL_TTL_HOURS + max_age_hours)
    /\ terminals \in ScenarioTables(now)
    /\ running \in SUBSET {i \in DOMAIN terminals :
                               terminals[i].container_id # NoContainer}
    /\ wf = [i \in Ids |-> NoWf]
    /\ pendingDeletes = {}
    /\ resp = NoResp
    /\ touched = [i \in Ids |-> FALSE]
    /\ statusTrace = [i \in Ids |-> <<>>]
    /\ cbStarted = [i \in Ids |-> FALSE]
    /\ stats_cache = [i \in Ids |-> NoStats]
    /\ calls = <<>>

NextScenario ==
    \/ cleanup_expired_terminals
    \/ cleanup_failed_terminals
    \/ cleanup_idle_terminals

SpecScenario == InitScenario /\ [][NextScenario]_vars

\* ======================================================================
\* Properties
\* ======================================================================
\* count of the rows the store-side admission check counts
ActiveCount ==
    Cardinality({i \in DOMAIN terminals :
        /\ terminals[i].status \in {PENDING, STARTING, STARTED}
        /\ terminals[i].deleted_at = NoTime})

Inserted(id) == id \notin DOMAIN terminals /\ id \in DOMAIN terminals'

WorkflowStep(id) == wf'[id] # wf[id] /\ wf[id].pc # "none"

\* C1: while the store counts at least MAX_CONTAINERS_PER_SERVER active rows,
\* a create request inserts no row and schedules no workflow.
C1_StoreCheckRejects ==
    [][ActiveCount >= MAX_CONTAINERS_PER_SERVER =>
          /\ DOMAIN terminals' = DOMAIN terminals
          /\ \A id \in Ids : wf[id].pc = "none" => wf'[id].pc = "none"]_vars

\* C2: while the store counts fewer active rows than the ceiling but the
\* runtime has at least MAX_CONTAINERS_PER_SERVER running containers, a create
\* request inserts no row.
C2_DriverCheckRejects ==
    [][(/\ ActiveCount < MAX_CONTAINERS_PER_SERVER
        /\ Cardinality(running) >= MAX_CONTAINERS_PER_SERVER) =>
          DOMAIN terminals' = DOMAIN terminals]_vars

\* C3: the number of running terminal containers never exceeds
\* MAX_CONTAINERS_PER_SERVER.
C3_CeilingRespected == Cardinality(running) <= MAX_CONTAINERS_PER_SERVER

\* C4: every change of a row's status follows an edge of the state machine.
AllowedEdges ==
    {<<PENDING, STARTING>>, <<STARTING, STARTED>>, <<STARTING, FAILED>>,
     <<STARTED, FAILED>>, <<STARTED, STOPPED>>, <<STOPPED, PENDING>>,
     <<PENDING, FAILED>>}
    \cup ({PENDING, STARTING, STARTED, STOPPED} \X {EXPIRED})

C4_OnlyAllowedEdges ==
    [][\A id \in DOMAIN terminals :
          terminals'[id].status # terminals[id].status =>
              <<terminals[id].status, terminals'[id].status>> \in AllowedEdges]_vars

\* C5: once a row's status is Expired no step changes it.
C5_ExpiredAbsorbing ==
    [][\A id \in DOMAIN terminals :
          terminals[id].status = EXPIRED => terminals'[id].status = EXPIRED]_vars

\* C6: a create request commits a row with a fresh id, status Pending and
\* expires_at = creation time + TTL, leaves every other row alone, answers 202
\* with the Pending row, and only schedules the workflow: the workflow of a
\* terminal leaves "none" in the step that inserts its row and in no other.
C6_AdmissionCommitsPending ==
    [][\A id \in Ids :
          /\ Inserted(id) =>
                /\ terminals'[id].status = PENDING
                /\ terminals'[id].created_at = now
                /\ terminals'[id].expires_at = now + TERMINAL_TTL_HOURS
                /\ \A j \in DOMAIN terminals : terminals'[j] = terminals[j]
                /\ wf'[id].pc = "scheduled"
                /\ resp' = [code |-> 202, status |-> PENDING]
          /\ (wf[id].pc = "none" /\ wf'[id].pc # "none") =>
                Inserted(id) /\ wf'[id].pc = "scheduled"
          /\ (wf'[id].pc = "starting" /\ wf[id].pc # "starting") =>
                id \in DOMAIN terminals /\ wf[id].pc = "scheduled"]_vars

C6_Witness ==
    \E id \in DOMAIN terminals :
        /\ terminals[id].status = PENDING
        /\ terminals[id].expires_at = terminals[id].created_at + TERMINAL_TTL_HOURS
        /\ wf[id].pc = "scheduled"
        /\ resp = [code |-> 202, status |-> PENDING]
        /\ id > 1

\* C7: when the workflow ended on a ready poll and no other writer wrote the
\* row, the row went Pending, Starting, Started and holds the URL the poll
\* observed.
C7_ProvisioningSuccess ==
    \A id \in DOMAIN terminals :
        (wf[id].result = "ready" /\ ~touched[id]) =>
            /\ terminals[id].status = STARTED
            /\ terminals[id].tunnel_url = wf[id].url
            /\ Truthy(wf[id].url)
            /\ statusTrace[id] = <<PENDING, STARTING, STARTED>>
            /\ terminals[id].container_id # NoContainer

C7_Witness ==
    \E id \in DOMAIN terminals :
        /\ wf[id].result = "ready"
        /\ wf[id].attempt > 0
        /\ ~touched[id]
        /\ terminals[id].status = STARTED

\* C8: when the poll loop runs out of attempts the workflow ends with status
\* Failed, a non-empty error_message and no tunnel_url.
C8_ExhaustionFails ==
    [][\A id \in DOMAIN terminals :
          (wf'[id].result = "exhausted" /\ wf[id].result # "exhausted") =>
              /\ terminals'[id].status = FAILED
              /\ Truthy(terminals'[id].error_message)
              /\ terminals'[id].tunnel_url = NoneStr]_vars

\* C9: when the driver's create call raises, the workflow writes status Failed
\* with the exception text as error_message and returns.
C9_FailureContained ==
    [][\A id \in DOMAIN terminals :
          (wf[id].pc = "starting" /\ WorkflowStep(id)
             /\ terminals'[id].container_id = NoContainer) =>
              /\ wf'[id].pc = "done"
              /\ wf'[id].exc \in {LimitMessage, DockerRunMessage}
              /\ terminals'[id].status = FAILED
              /\ terminals'[id].error_message = wf'[id].exc]_vars

C9_Witness ==
    \E id \in DOMAIN terminals :
        /\ wf[id].pc = "done"
        /\ wf[id].result = "exception"
        /\ terminals[id].status = FAILED
        /\ terminals[id].error_message = DockerRunMessage

\* C10: once report_tunnel has set Started during the poll loop, no later step
\* of the workflow changes the row's status or tunnel_url.
C10_PollYieldsToCallback ==
    [][\A id \in DOMAIN terminals :
          (cbStarted[id] /\ WorkflowStep(id)) =>
              /\ terminals'[id].status = terminals[id].status
              /\ terminals'[id].tunnel_url = terminals[id].tunnel_url]_vars

\* ------------------------------------------------------- callback claims
\* a step of one of the five callback handlers for this request, with any of
\* the payloads the handler gets to read
AnyCallback(id, h) ==
    \/ \E url \in TunnelPayloads(id, h) : report_tunnel_url(id, h, url)
    \/ \E p \in AllStatusPayloads(id, h) : report_status(id, h, p[1], p[2])
    \/ container_health_check(id, h)
    \/ \E body \in StatsBodies(id, h) : report_stats(id, h, body)
    \/ report_idle_shutdown(id, h)

\* the Authorization header is not "Bearer <the token derived for id>"
Unauthentic(id, h) ==
    h.scheme # "bearer" \/ h.token # generate_callback_token(id)

\* C11: a callback of any of the five kinds whose header is absent, malformed
\* or carries another token than the one derived for its terminal_id is
\* answered 401, changes no row and no stats-cache entry, and calls no driver.
C11_RejectsUnauthenticated ==
    [][\/ /\ resp'.code = 401
          /\ terminals' = terminals
          /\ stats_cache' = stats_cache
          /\ running' = running
          /\ calls' = <<>>
       \/ \A id \in Ids : \A h \in Headers :
             Unauthentic(id, h) => ~AnyCallback(id, h)]_vars

C11_Witness ==
    /\ resp.code = 401
    /\ \E id \in DOMAIN terminals :
          /\ terminals[id].status = STARTED
          /\ terminals[id].container_id # NoContainer
          /\ id \in running

\* C12: the token generated for terminal a verifies for no other terminal, and
\* a callback that carries a's token leaves the row of every other terminal
\* unchanged, whatever terminal it names: a step that changes the row of b is
\* no callback sent with the token of another terminal.
C12_TokenBinding ==
    [][/\ \A a \in Ids : \A id \in Ids \ {a} :
             ~verify_callback_token(id, generate_callback_token(a))
       /\ \A b \in DOMAIN terminals :
             terminals'[b] # terminals[b] =>
                 \A a \in Ids \ {b} : \A id \in Ids :
                     ~BindingCallback(id, OwnToken(a))]_vars

\* both terminals are live and a request that carried another terminal's token
\* was turned away
C12_Witness ==
    /\ DOMAIN terminals = Ids
    /\ \A id \in Ids : terminals[id].status = STARTED /\ id \in running
    /\ resp.code = 401

\* every field of a row but those named keeps its value
SameBut(before, after, fields) ==
    \A f \in DOMAIN before \ fields : after[f] = before[f]

\* C13: report_tunnel is idempotent.  From every record state and for every
\* payload, one report answered 200 leaves the row with status Started, tunnel_url
\* equal to the payload's URL and every other field as it was, and the same
\* report applied to that row again leaves it as it is.
C13_TunnelIdempotent ==
    [][resp'.code = 200 =>
       \A id \in DOMAIN terminals : \A url \in URLs \cup {NoneStr} :
          report_tunnel_url(id, OwnToken(id), url) =>
              LET once == terminals'[id]
              IN /\ once.status = STARTED
                 /\ once.tunnel_url = url
                 /\ SameBut(terminals[id], once, {"status", "tunnel_url"})
                 /\ TunnelWrite(once, url) = once]_vars

C13_Witness ==
    /\ resp.code = 200
    /\ \E id \in DOMAIN terminals :
          /\ terminals[id].status = STARTED
          /\ terminals[id].tunnel_url = "u1"
          /\ terminals[id].container_id = NoContainer

\* C14 as stated: a report_status answered 200 that carries an error_message (any string)
\* leaves status Failed and error_message equal to the message.
C14_AnyMessageFails ==
    [][resp'.code = 200 =>
       \A id \in DOMAIN terminals : \A p \in StatusInputs :
          (p[2] # NoneStr /\ report_status(id, OwnToken(id), p[1], p[2])) =>
              /\ terminals'[id].status = FAILED
              /\ terminals'[id].error_message = p[2]]_vars

\* C14: report_status precedence, for the reports answered 200.  A report
\* that carries a non-empty
\* error_message leaves status Failed and error_message equal to it, whatever
\* status it carries; one that carries a status and no (or an empty) message
\* sets exactly that status and keeps error_message; one that carries neither
\* leaves the row unchanged.
C14_StatusPrecedence ==
    [][resp'.code = 200 =>
       \A id \in DOMAIN terminals : \A p \in StatusInputs :
          report_status(id, OwnToken(id), p[1], p[2]) =>
              LET st == p[1]
                  err == p[2]
                  row == terminals[id]
                  row2 == terminals'[id]
              IN /\ Truthy(err) =>
                        /\ row2.status = FAILED
                        /\ row2.error_message = err
                        /\ SameBut(row, row2, {"status", "error_message"})
                 /\ (~Truthy(err) /\ st # NoneStr) =>
                        /\ row2.status = st
                        /\ SameBut(row, row2, {"status"})
                 /\ (~Truthy(err) /\ st = NoneStr) => row2 = row]_vars

C14_Witness ==
    /\ resp.code = 200
    /\ \E id \in DOMAIN terminals :
          /\ terminals[id].status = FAILED
          /\ terminals[id].error_message \in CallbackErrors
          /\ terminals[id].tunnel_url # NoneStr

\* C15: report_stats frame.  For every payload and every record state a
\* report_stats answered 200 leaves every field of every row, last_activity_at
\* included, as it was, and changes nothing but the stats cache.
C15_StatsFrame ==
    [][resp'.code = 200 =>
       \A id \in DOMAIN terminals : \A body \in StatsInputs :
          report_stats(id, OwnToken(id), body) =>
              /\ terminals' = terminals
              /\ running' = running
              /\ wf' = wf
              /\ pendingDeletes' = pendingDeletes]_vars

C15_Witness ==
    /\ resp.code = 200
    /\ \E id \in DOMAIN terminals :
          /\ terminals[id].container_id # NoContainer
          /\ stats_cache[terminals[id].container_id].cpu_percent = 5
          /\ terminals[id].last_activity_at = NoTime

\* C16: report_stats cache update.  A report_stats answered 200 writes the
\* cache entry of the row's container exactly when the row has a container
\* and the payload carries at least one of cpu_percent, memory_mb and
\* memory_percent, and it changes no other entry.
C16_CacheUpdateIff ==
    [][resp'.code = 200 =>
       \A id \in DOMAIN terminals : \A body \in StatsInputs :
          report_stats(id, OwnToken(id), body) =>
              LET cid == terminals[id].container_id
              IN /\ StatsGiven_AnyMetric(terminals[id], body) <=>
                        calls' = <<Call("update_container_stats", cid, TRUE)>>
                 /\ \A c \in Ids \ {cid} :
                        stats_cache'[c] = stats_cache[c]]_vars

\* C17: report_idle no-op.  An authenticated report_idle for a terminal whose
\* status is Stopped, Expired or Failed is answered 200, calls no driver
\* operation and leaves every row and every container as it was.
C17_IdleNoOp ==
    [][\A id \in DOMAIN terminals :
          (/\ terminals[id].status \in {STOPPED, EXPIRED, FAILED}
           /\ report_idle_shutdown(id, OwnToken(id))) =>
              /\ resp'.code = 200
              /\ calls' = <<>>
              /\ running' = running
              /\ terminals' = terminals]_vars

C17_Witness ==
    /\ resp.code = 200
    /\ calls = <<>>
    /\ \E id \in DOMAIN terminals :
          /\ terminals[id].status = EXPIRED
          /\ terminals[id].container_id # NoContainer
          /\ terminals[id].container_id \in running

C19_StopFailureAborts ==
    [][\A id \in DOMAIN terminals :
          (/\ report_idle_shutdown(id, OwnToken(id))
           /\ calls' = <<Call("stop", terminals[id].container_id, FALSE)>>) =>
              /\ resp'.code >= 500
              /\ terminals'[id].status = terminals[id].status]_vars

\* C20: restart of a stopped terminal.  A start request for a terminal whose
\* status is Stopped and whose TTL has not run out sets status Pending and
\* clears error_message, keeps every other field and the set of record ids,
\* and schedules the provisioning workflow for that id with restart = true.
C20_RestartStopped ==
    [][\A id \in DOMAIN terminals :
          (/\ terminals[id].status = STOPPED
           /\ now <= terminals[id].expires_at
           /\ start_terminal(id)) =>
              /\ terminals'[id].status = PENDING
              /\ terminals'[id].error_message = NoneStr
              /\ SameBut(terminals[id], terminals'[id],
                         {"status", "error_message"})
              /\ DOMAIN terminals' = DOMAIN terminals
              /\ \A j \in DOMAIN terminals \ {id} : terminals'[j] = terminals[j]
              /\ wf'[id].pc = "scheduled"
              /\ wf'[id].restart
              /\ \A j \in Ids \ {id} : wf'[j] = wf[j]
              /\ running' = running]_vars

C20_Witness ==
    \E id \in DOMAIN terminals :
        /\ terminals[id].status = PENDING
        /\ terminals[id].container_id # NoContainer
        /\ terminals[id].error_message = NoneStr
        /\ wf[id].pc = "scheduled"
        /\ wf[id].restart

\* C21: restart guard.  A start request for a terminal whose status is not
\* Stopped (Failed included) or whose expires_at has passed is answered with
\* an error, leaves every row as it was and schedules no workflow.
C21_RestartGuard ==
    [][\A id \in DOMAIN terminals :
          (/\ \/ terminals[id].status # STOPPED
              \/ terminals[id].expires_at < now
           /\ start_terminal(id)) =>
              /\ resp'.code = 400
              /\ terminals' = terminals
              /\ wf' = wf
              /\ running' = running]_vars

C21_Witness ==
    /\ resp.code = 400
    /\ \E id \in DOMAIN terminals :
          /\ terminals[id].status = STOPPED
          /\ terminals[id].expires_at < now
          /\ wf[id].pc = "done"

\* C22: expiry pass effect.  Every non-deleted row with expires_at < now and
\* status Started, Starting, Pending or Stopped has status Expired and
\* deleted_at set when the expiry pass ends, whatever the outcome of the
\* deletion of its container: a step of the pass leaves no such row otherwise.
C22_ExpiryPassEffect ==
    [][\/ \A i \in DOMAIN terminals :
             (/\ terminals[i].deleted_at = NoTime
              /\ terminals[i].expires_at < now
              /\ terminals[i].status \in {STARTED, STARTING, PENDING, STOPPED}) =>
                 /\ terminals'[i].status = EXPIRED
                 /\ terminals'[i].deleted_at = now
       \/ ~cleanup_expired_terminals]_vars

C22_Witness ==
    \E i \in DOMAIN terminals :
        /\ terminals[i].status = EXPIRED
        /\ terminals[i].deleted_at = now
        /\ terminals[i].container_id \in running
        /\ calls = <<Call("delete", terminals[i].container_id, FALSE)>>

\* C23: stuck pass effect.  Every row with status Pending or Starting whose
\* created_at is older than the stuck threshold has, when the stuck pass ends,
\* status Failed, a non-empty error_message and deleted_at set, whether or not
\* its expires_at has passed and whatever the outcome of the deletion of its
\* container: a step of the pass leaves no such row otherwise.
C23_StuckPassEffect ==
    [][\/ \A i \in DOMAIN terminals :
             (/\ terminals[i].status \in {PENDING, STARTING}
              /\ terminals[i].created_at < now - max_age_hours) =>
                 /\ terminals'[i].status = FAILED
                 /\ Truthy(terminals'[i].error_message)
                 /\ terminals'[i].deleted_at = now
       \/ ~cleanup_failed_terminals]_vars

C23_Witness ==
    \E i \in DOMAIN terminals :
        /\ terminals[i].status = FAILED
        /\ terminals[i].error_message = StuckMessage
        /\ terminals[i].deleted_at = now
        /\ terminals[i].expires_at < now
        /\ terminals[i].container_id \in running
        /\ calls = <<Call("delete", terminals[i].container_id, FALSE)>>

\* the time of the last activity of a row, or of its creation when no
\* activity was recorded
ActivityOrCreation(row) ==
    IF row.last_activity_at # NoTime THEN row.last_activity_at
    ELSE row.created_at

\* C24: idle pass effect.  A step of the idle pass leaves every non-deleted
\* Started row that satisfies the idle predicate with status Stopped and
\* deleted_at unset, having asked the driver to stop, not to delete, its
\* container, also when the stop fails; every other Started row is unchanged.
C24_IdlePassEffect ==
    [][\/ \A i \in DOMAIN terminals :
             terminals[i].status = STARTED =>
                IF /\ terminals[i].deleted_at = NoTime
                   /\ now - ActivityOrCreation(terminals[i])
                         > idle_timeout_minutes \div 60
                THEN /\ terminals'[i].status = STOPPED
                     /\ terminals'[i].deleted_at = NoTime
                     /\ SameBut(terminals[i], terminals'[i], {"status"})
                     /\ terminals[i].container_id # NoContainer =>
                           \E k \in DOMAIN calls' :
                              /\ calls'[k].op = "stop"
                              /\ calls'[k].cid = terminals[i].container_id
                     /\ \A k \in DOMAIN calls' : calls'[k].op = "stop"
                ELSE terminals'[i] = terminals[i]
       \/ ~cleanup_idle_terminals]_vars

C24_Witness ==
    \E i \in DOMAIN terminals : \E j \in DOMAIN terminals :
        /\ terminals[i].status = STOPPED
        /\ terminals[i].deleted_at = NoTime
        /\ terminals[i].container_id \in running
        /\ calls = <<Call("stop", terminals[i].container_id, FALSE)>>
        /\ terminals[j].status = STARTED
        /\ terminals[j].last_activity_at # NoTime

\* One terminal under the periodic cleanup task.  The beat schedule starts
\* run_cleanup_task every CLEANUP_INTERVAL_MINUTES, so the expiry pass is
\* taken again and again: it is weakly fair.  The container keeps reporting its
\* tunnel, health and stats, and may report the status failed.
TTLStatsBody == [NoBody EXCEPT !.cpu_percent = 5]

NextTTL ==
    \/ AdmitFirst
    \/ \E id \in Ids : LoopFree /\ BgStart(id)
    \/ \E id \in Ids : BgCreateContainer(id)
    \/ \E id \in Ids :
          LoopFree /\ SentBy(id, OwnToken(id))
                   /\ report_tunnel_url(id, OwnToken(id), "u1")
    \/ \E id \in Ids :
          LoopFree /\ SentBy(id, OwnToken(id))
                   /\ container_health_check(id, OwnToken(id))
    \/ \E id \in Ids :
          LoopFree /\ SentBy(id, OwnToken(id))
                   /\ report_stats(id, OwnToken(id), TTLStatsBody)
    \/ \E id \in Ids :
          LoopFree /\ SentBy(id, OwnToken(id))
                   /\ report_status(id, OwnToken(id), FAILED, NoneStr)
    \/ cleanup_expired_terminals
    \/ cleanup_failed_terminals
    \/ Tick

SpecTTL ==
    Init /\ [][NextTTL]_vars /\ WF_vars(cleanup_expired_terminals)

\* The same terminal with everything the beat schedule starts taken fairly:
\* run_cleanup_task is the only scheduled task and runs the expiry and the
\* stuck pass; run_idle_timeout_task is in no schedule, so the idle pass is no
\* step here.  The clock advances.
SpecBeat ==
    /\ Init /\ [][NextTTL]_vars
    /\ WF_vars(cleanup_expired_terminals)
    /\ WF_vars(cleanup_failed_terminals)
    /\ WF_vars(Tick)

\* One terminal through the whole provisioning workflow and then under the
\* sweep, all of it taken fairly: the workflow's steps, the three passes and
\* the clock.
NextReclaim ==
    \/ AdmitFirst
    \/ Workflow
    \/ \E id \in Ids :
          LoopFree /\ SentBy(id, OwnToken(id))
                   /\ report_tunnel_url(id, OwnToken(id), "u1")
    \/ cleanup_expired_terminals
    \/ cleanup_failed_terminals
    \/ cleanup_idle_terminals
    \/ Tick

SpecReclaim ==
    /\ Init /\ [][NextReclaim]_vars
    /\ WF_vars(Workflow)
    /\ WF_vars(cleanup_expired_terminals)
    /\ WF_vars(cleanup_failed_terminals)
    /\ WF_vars(cleanup_idle_terminals)
    /\ WF_vars(Tick)

\* One terminal whose client may delete it while its provisioning workflow
\* runs.  Client delete is the only writer here that is not the workflow, so
\* touched[id] says that a delete request for id was accepted.
NextDeleteRace ==
    \/ AdmitFirst
    \/ Workflow
    \/ Deletes
    \/ Tick

SpecDeleteRace == Init /\ [][NextDeleteRace]_vars

\* Terminal.is_idle on the minute clock.  The marks are the minutes around the
\* idle timeout and around twice the timeout; a row is a Started record created
\* at minute c whose last activity is unset or at a later mark.
MinuteMarks ==
    {0, 1, idle_timeout_minutes - 1, idle_timeout_minutes,
     idle_timeout_minutes + 1, idle_timeout_minutes + 2,
     2 * idle_timeout_minutes, 2 * idle_timeout_minutes + 1}

MinuteRow(c, a) ==
    [StartedRow(1, c, a) EXCEPT !.expires_at = c + TERMINAL_TTL_HOURS * 60]

InitIdle ==
    /\ now \in MinuteMarks
    /\ \E c \in {m \in MinuteMarks : m <= now} :
          \E a \in {NoTime} \cup {m \in MinuteMarks : c <= m /\ m <= now} :
             terminals = <<MinuteRow(c, a)>>
    /\ running = {1}
    /\ wf = [i \in Ids |-> NoWf]
    /\ pendingDeletes = {}
    /\ resp = NoResp
    /\ touched = [i \in Ids |-> FALSE]
    /\ statusTrace = [i \in Ids |-> <<>>]
    /\ cbStarted = [i \in Ids |-> FALSE]
    /\ stats_cache = [i \in Ids |-> NoStats]
    /\ calls = <<>>

\* the filter of cleanup_idle_terminals applied to the row
IdleCheck ==
    /\ resp' = [code |-> 200,
                idle |-> is_idle(terminals[1], now, idle_timeout_minutes)]
    /\ UNCHANGED <<terminals, wf, running, pendingDeletes, now, touched,
                   statusTrace, cbStarted, stats_cache, calls>>

\* a health report records activity at the current minute
MinuteActivity ==
    /\ terminals' = [terminals EXCEPT ![1] = set_last_activity(@, now)]
    /\ resp' = NoResp
    /\ UNCHANGED <<wf, running, pendingDeletes, now, touched,
                   statusTrace, cbStarted, stats_cache, calls>>

MinuteTick ==
    /\ \E m \in MinuteMarks : m > now /\ now' = m
    /\ resp' = NoResp
    /\ UNCHANGED <<terminals, wf, running, pendingDeletes, touched,
                   statusTrace, cbStarted, stats_cache, calls>>

NextIdle == IdleCheck \/ MinuteActivity \/ MinuteTick

SpecIdle == InitIdle /\ [][NextIdle]_vars

\* A record the expiry pass has still to take, and one the stuck pass has.
AwaitsExpiry(row, t) ==
    /\ row.expires_at < t
    /\ row.status \in {STARTED, STARTING, PENDING, STOPPED}

AwaitsStuck(row, t) ==
    /\ row.status \in {PENDING, STARTING}
    /\ row.created_at < t - max_age_hours

\* C25: a sweep pass changes no field of a record that is neither expired
\* (expires_at >= now) nor stuck nor idle; on a table of one expired Started
\* record, one stuck Pending record and one current record the sweep yields
\* exactly one Expired and one Failed record: never more than one of either,
\* and one of each once neither pass has a record left to take.
C25_SweepFrame ==
    [][/\ \A id \in DOMAIN terminals :
             (/\ terminals[id].expires_at >= now
              /\ ~AwaitsStuck(terminals[id], now)
              /\ ~(/\ terminals[id].status = STARTED
                   /\ is_idle(terminals[id], now, idle_timeout_minutes \div 60)))
                 => terminals'[id] = terminals[id]
       /\ LET expired == {id \in DOMAIN terminals' :
                             terminals'[id].status = EXPIRED}
              failed == {id \in DOMAIN terminals' :
                            terminals'[id].status = FAILED}
              settled == \A id \in DOMAIN terminals' :
                            /\ ~AwaitsExpiry(terminals'[id], now')
                            /\ ~AwaitsStuck(terminals'[id], now')
          IN /\ Cardinality(expired) <= 1
             /\ Cardinality(failed) <= 1
             /\ settled => Cardinality(expired) = 1 /\ Cardinality(failed) = 1
      ]_vars

\* the sweep has run on the three records: one is Expired, one is Failed and
\* the current one is as it was
C25_Witness ==
    /\ Len(terminals) = Len(ScenarioKinds)
    /\ \E e, f, h \in DOMAIN terminals :
          /\ terminals[e].status = EXPIRED
          /\ terminals[e].deleted_at # NoTime
          /\ terminals[f].status = FAILED
          /\ terminals[h].status \in {PENDING, STARTING, STARTED}
          /\ terminals[h].deleted_at = NoTime
          /\ terminals[h].created_at >= now - max_age_hours
          /\ \A id \in DOMAIN terminals \ {e, f, h} : FALSE

\* C26: is_idle(timeout) is true exactly when now minus the last activity
\* (the creation time when no activity was recorded) exceeds the timeout: with
\* the 60-minute timeout it is false 59 minutes after the last activity, true
\* 61 minutes after it, and true for a record without activity created 61
\* minutes ago.
C26_IdlePredicate ==
    [][IdleCheck =>
         LET row == terminals[1]
             age == now - ActivityOrCreation(row)
         IN /\ resp'.idle = (age > idle_timeout_minutes)
            /\ age = idle_timeout_minutes - 1 => ~resp'.idle
            /\ age = idle_timeout_minutes + 1 => resp'.idle
            /\ (/\ row.last_activity_at = NoTime
                /\ now - row.created_at = idle_timeout_minutes + 1)
                  => resp'.idle
      ]_vars

\* the check has answered idle for a record without recorded activity that
\* was created one minute more than the timeout ago
C26_Witness ==
    /\ resp = [code |-> 200, idle |-> TRUE]
    /\ terminals[1].last_activity_at = NoTime
    /\ now - terminals[1].created_at = idle_timeout_minutes + 1

\* the pass has made a driver call that failed on a selected row other than i
FailedOnOther(S, i) ==
    \E j \in S \ {i} : \E k \in DOMAIN calls' :
        calls'[k].cid = terminals[j].container_id /\ ~calls'[k].ok

\* row i has been processed by the pass: it is in the pass's target state and
\* the driver was called for its container
ProcessedTo(i, op, target) ==
    /\ terminals'[i].status = target
    /\ terminals[i].container_id # NoContainer =>
          \E k \in DOMAIN calls' :
             calls'[k].op = op /\ calls'[k].cid = terminals[i].container_id

\* C27: per-record failure isolation.  In the expiry, the stuck and the idle
\* pass a failure on one selected record does not end the pass: every other
\* selected record is still processed and reaches the pass's target state.
C27_FailureIsolation ==
    [][/\ \/ LET S == {i \in DOMAIN terminals : ExpiredSelected(terminals[i])}
              IN \A i \in S : FailedOnOther(S, i) =>
                    /\ ProcessedTo(i, "delete", EXPIRED)
                    /\ terminals'[i].deleted_at = now
          \/ ~cleanup_expired_terminals
       /\ \/ LET S == {i \in DOMAIN terminals :
                          /\ terminals[i].status \in {PENDING, STARTING}
                          /\ terminals[i].created_at < now - max_age_hours}
              IN \A i \in S : FailedOnOther(S, i) =>
                    /\ ProcessedTo(i, "delete", FAILED)
                    /\ terminals'[i].deleted_at = now
          \/ ~cleanup_failed_terminals
       /\ \/ LET S == {i \in DOMAIN terminals : IdleSelected(terminals[i])}
              IN \A i \in S : FailedOnOther(S, i) =>
                    /\ ProcessedTo(i, "stop", STOPPED)
                    /\ terminals'[i].deleted_at = NoTime
          \/ ~cleanup_idle_terminals
      ]_vars

\* the expiry pass took two records; the deletion of the first one's container
\* failed and the second one was still deleted and marked Expired
C27_Witness ==
    /\ Len(calls) = 2
    /\ calls[1].op = "delete" /\ ~calls[1].ok
    /\ calls[2].op = "delete" /\ calls[2].ok
    /\ \E a, b \in DOMAIN terminals :
          /\ a < b
          /\ terminals[a].container_id = calls[1].cid
          /\ terminals[b].container_id = calls[2].cid
          /\ terminals[a].status = EXPIRED /\ terminals[a].deleted_at = now
          /\ terminals[b].status = EXPIRED /\ terminals[b].deleted_at = now
          /\ terminals[a].container_id \in running
          /\ terminals[b].container_id \notin running

\* the TTL of terminal id has passed while it is in a status the expiry pass
\* takes
PastTTL(id) ==
    /\ id \in DOMAIN terminals
    /\ terminals[id].expires_at < now
    /\ terminals[id].status \in {PENDING, STARTING, STARTED, STOPPED}

ExpiredAndDeleted(id) ==
    /\ id \in DOMAIN terminals
    /\ terminals[id].status = EXPIRED
    /\ terminals[id].deleted_at # NoTime

\* C28 as stated: with the sweep running infinitely often, every terminal
\* whose expires_at has passed while it is Pending, Starting, Started or
\* Stopped eventually is Expired with deleted_at set.
C28_TTLAlwaysExpires ==
    \A id \in Ids : PastTTL(id) ~> ExpiredAndDeleted(id)

\* C28: TTL enforcement.  With the sweep running infinitely often, every
\* terminal whose expires_at has passed while it is Pending, Starting, Started
\* or Stopped eventually is Expired with deleted_at set, whatever tunnel,
\* health and stats callbacks it keeps receiving, unless another writer (a
\* status callback, the failing workflow, the stuck pass) takes it out of
\* those four statuses first.
C28_TTLEnforcement ==
    \A id \in Ids :
        PastTTL(id) ~>
            (\/ ExpiredAndDeleted(id)
             \/ /\ id \in DOMAIN terminals
                /\ terminals[id].status
                      \notin {PENDING, STARTING, STARTED, STOPPED})

\* a terminal that reported its health after its TTL had passed is Expired
\* and soft-deleted
C28_Witness ==
    \E id \in DOMAIN terminals :
        /\ ExpiredAndDeleted(id)
        /\ terminals[id].last_activity_at > terminals[id].expires_at
        /\ terminals[id].deleted_at > terminals[id].expires_at

\* C29: soft-deleted records are frozen.  Once deleted_at is set on a record,
\* no step (a callback, the workflow, client delete, a sweep pass) changes
\* any of its fields.
C29_DeletedFrozen ==
    [][\A id \in DOMAIN terminals :
          terminals[id].deleted_at # NoTime => terminals'[id] = terminals[id]
      ]_vars

\* C30: client delete.  An accepted delete request leaves the record with
\* deleted_at set and out of the default listing and schedules the deletion
\* of its container; the background deletion, failed or not, changes no
\* record.
C30_ClientDelete ==
    [][/\ \A id \in DOMAIN terminals :
             \/ /\ terminals'[id].deleted_at # NoTime
                /\ id \notin list_terminals(terminals')
                /\ terminals[id].container_id # NoContainer =>
                      terminals[id].container_id \in pendingDeletes'
             \/ resp'.code # 200
             \/ ~delete_terminal(id)
       /\ \/ terminals' = terminals
          \/ \A cid \in Ids : ~BgDeleteContainer(cid)
      ]_vars

\* C31: expires_at is immutable.  A step that inserts a record sets its
\* expires_at to the time of creation plus the TTL, and no step changes the
\* expires_at of a record that exists.
C31_ExpiryImmutable ==
    [][/\ \A id \in DOMAIN terminals :
             terminals'[id].expires_at = terminals[id].expires_at
       /\ \A id \in DOMAIN terminals' \ DOMAIN terminals :
             terminals'[id].expires_at = now + TERMINAL_TTL_HOURS
      ]_vars

\* a record that was provisioned, reported its tunnel and was swept after its
\* TTL still has the expires_at of its creation
C31_Witness ==
    \E id \in DOMAIN terminals :
        /\ terminals[id].status = EXPIRED
        /\ terminals[id].tunnel_url # NoneStr
        /\ terminals[id].container_id # NoContainer
        /\ terminals[id].deleted_at > terminals[id].expires_at
        /\ terminals[id].expires_at
              = terminals[id].created_at + TERMINAL_TTL_HOURS

\* C32: sweep cycle completeness.  With the scheduler firing again and again,
\* a non-deleted Started terminal that is idle eventually is Stopped, unless
\* a health pulse ends its idleness.
C32_IdleEventuallyStopped ==
    \A id \in Ids :
        (/\ id \in DOMAIN terminals
         /\ IdleSelected(terminals[id]))
          ~> (/\ id \in DOMAIN terminals
              /\ \/ terminals[id].status = STOPPED
                 \/ ~is_idle(terminals[id], now, idle_timeout_minutes \div 60))

\* C33: retry of a failed container deletion.  When the deletion of a
\* terminal's container fails in the expiry or the stuck pass, the pass leaves
\* the terminal in a status that a later expiry or stuck pass selects (the
\* time conditions of both selections only become truer), so that the
\* deletion is tried again.
C33_FailedDeleteRetried ==
    [][\/ \A i \in DOMAIN terminals :
             (\E k \in DOMAIN calls' :
                 /\ calls'[k].op = "delete"
                 /\ calls'[k].cid = terminals[i].container_id
                 /\ ~calls'[k].ok)
               => terminals'[i].status \in {PENDING, STARTING, STARTED, STOPPED}
       \/ /\ ~cleanup_expired_terminals
          /\ ~cleanup_failed_terminals
      ]_vars

C35_PulseProtects ==
    [][/\ \A id \in DOMAIN terminals :
             \/ /\ terminals'[id].last_activity_at = now
                /\ SameBut(terminals[id], terminals'[id], {"last_activity_at"})
             \/ resp'.code # 200
             \/ ~container_health_check(id, OwnToken(id))
       /\ \/ \A id \in DOMAIN terminals :
                (/\ terminals[id].status = STARTED
                 /\ terminals[id].last_activity_at # NoTime
                 /\ now - terminals[id].last_activity_at
                       <= idle_timeout_minutes \div 60)
                   => terminals'[id] = terminals[id]
          \/ ~cleanup_idle_terminals
      ]_vars

\* the idle pass has stopped one terminal and left alone another that is as
\* old but sent a health pulse within the timeout
C35_Witness ==
    \E i, j \in DOMAIN terminals :
        /\ terminals[i].status = STARTED
        /\ terminals[i].created_at < now - idle_timeout_minutes \div 60
        /\ terminals[i].last_activity_at = now
        /\ terminals[j].status = STOPPED
        /\ \E k \in DOMAIN calls :
              calls[k] = Call("stop", terminals[j].container_id, TRUE)

\* C36: container reclamation.  When no driver call ever fails and the sweep
\* keeps running, every container the workflow created and that still runs
\* when its terminal's expires_at has passed is eventually stopped or deleted
\* by the driver, also when provisioning left the terminal Failed.
C36_ContainerReclaimed ==
    [](\A k \in DOMAIN calls : calls[k].ok)
      => \A id \in Ids :
            (/\ id \in DOMAIN terminals
             /\ terminals[id].container_id \in running
             /\ terminals[id].expires_at < now)
               ~> (/\ id \in DOMAIN terminals
                   /\ terminals[id].container_id \notin running)

\* C37: delete versus in-flight provisioning.  Once a client delete of a
\* terminal was accepted, no step sets the terminal's status to Started and
\* no step starts a container for it without a deletion of that container
\* being requested.
C37_DeleteStopsProvisioning ==
    [][\A id \in DOMAIN terminals :
          touched[id] =>
             /\ terminals'[id].status = STARTED
                   => terminals[id].status = STARTED
             /\ (id \in running' /\ id \notin running)
                   => id \in pendingDeletes'
      ]_vars

\* C38: Started implies reachable.  In every reachable state a record with
\* status Started has a non-empty tunnel_url.
C38_StartedHasUrl ==
    \A id \in DOMAIN terminals :
        terminals[id].status = STARTED => Truthy(terminals[id].tunnel_url)

\* C39: Failed implies diagnosed.  In every reachable state a record with
\* status Failed has a non-empty error_message.
C39_FailedHasMessage ==
    \A id \in DOMAIN terminals :
        terminals[id].status = FAILED => Truthy(terminals[id].error_message)

\* C40: Expired implies soft-deleted.  In every reachable state a record with
\* status Expired has deleted_at set.
C40_ExpiredIsDeleted ==
    \A id \in DOMAIN terminals :
        terminals[id].status = EXPIRED => terminals[id].deleted_at # NoTime

====
